---- MODULE Spec2Model ----
(***************************************************************************)
(* Weather & News API server (server.js) and the news-card rendering of    *)
(* the browser client (public/script.js).                                  *)
(*                                                                         *)
(* Every incoming request runs one async Express handler.  A handler runs  *)
(* without interruption up to an `await axios.get(...)`; it resumes when   *)
(* that outbound call settles.  Each stretch of handler code between two   *)
(* suspension points is one action.                                        *)
(*                                                                         *)
(* Conventions                                                             *)
(*   - a JavaScript value that may be undefined/null is a sequence of      *)
(*     length 0 (absent) or 1 (present): None, Some(v);                    *)
(*   - fractional numbers are written in tenths (15.3 is 153);             *)
(*   - the upstream key rain['3h'] is the record field h3.                 *)
(***************************************************************************)
EXTENDS Integers, Sequences, FiniteSets, TLC

\* Number of request slots (requests that may be in progress together).
NumReqs == 2

Reqs == 1..NumReqs

None == <<>>
Some(v) == <<v>>

-----------------------------------------------------------------------------
(* Inputs: query strings and upstream behaviour                            *)

\* req.query.city: absent, empty, or a city name.
Cities == {None, Some(""), Some("London")}

\* (city, country) pairs sent to /api/news.
NewsQueries ==
    { [city |-> None,           country |-> None],
      [city |-> Some(""),       country |-> None],
      [city |-> None,           country |-> Some("GB")],
      [city |-> Some("London"), country |-> Some("GB")] }

\* Non-2xx statuses an upstream provider answers with.
ErrStatuses == {401, 404, 429, 500}

WeatherPayload(temp, feels, wind, rain) ==
    [ main    |-> Some([temp |-> temp, feels_like |-> feels,
                        humidity |-> 80, pressure |-> 1012]),
      weather |-> << [description |-> "clear sky", icon |-> "01d"] >>,
      coord   |-> Some([lat |-> 515, lon |-> -1]),
      sys     |-> Some([country |-> "GB"]),
      wind    |-> wind,
      rain    |-> rain,
      name    |-> "London" ]

\* Payloads of the expected shape; wind and rain are optional upstream.
GoodWeatherPayloads ==
    { WeatherPayload(153, 141, Some([speed |-> Some(35)]), None),
      WeatherPayload(146, 144, None, Some([h3 |-> Some(20)])),
      WeatherPayload(-15, -26, Some([speed |-> None]), Some([h3 |-> Some(0)])),
      WeatherPayload(5, -5, Some([speed |-> Some(0)]), Some([h3 |-> None])) }

\* 2xx bodies that lack an object the mapping dereferences.
BadWeatherPayloads ==
    { [WeatherPayload(153, 141, None, None) EXCEPT !.main = None],
      [WeatherPayload(153, 141, None, None) EXCEPT !.weather = << >>],
      [WeatherPayload(153, 141, None, None) EXCEPT !.coord = None],
      [WeatherPayload(153, 141, None, None) EXCEPT !.sys = None] }

WeatherPayloads == GoodWeatherPayloads \cup BadWeatherPayloads

Article(url, title, description, image, source) ==
    [ title |-> title, description |-> description, url |-> url,
      publishedAt |-> "2024-01-01T12:00:00Z", source |-> source,
      urlToImage |-> image ]

ArticleA == Article("https://example.com/a", Some("Title A"), Some("About A"),
                    Some("https://example.com/a.jpg"), Some([name |-> "BBC News"]))
ArticleB == Article("https://example.com/b", None, None, None,
                    Some([name |-> "Reuters"]))
ArticleC == Article("https://example.com/c", Some("Title C"), None,
                    Some("https://example.com/c.jpg"), None)

GoodNewsPayloads ==
    { [totalResults |-> 1234, articles |-> Some(<<ArticleB, ArticleA>>)],
      [totalResults |-> 0,    articles |-> Some(<< >>)] }

\* 2xx bodies the mapping cannot walk: no articles array, or an article
\* without a source object.
BadNewsPayloads ==
    { [totalResults |-> 0, articles |-> None],
      [totalResults |-> 2, articles |-> Some(<<ArticleA, ArticleC>>)] }

NewsPayloads == GoodNewsPayloads \cup BadNewsPayloads

\* How an outbound call settles: a 2xx response with a body, a non-2xx
\* response, or no response at all (network failure).
Outcomes(payloads) ==
    { [status |-> Some(200), data |-> Some(d)] : d \in payloads }
      \cup { [status |-> Some(s), data |-> None] : s \in ErrStatuses }
      \cup { [status |-> None, data |-> None] }

-----------------------------------------------------------------------------
(* axios                                                                   *)

\* axios.get resolves for a 2xx status and rejects otherwise.
AxiosResolves(o) == o.status # None /\ o.status[1] \in 200..299

StatusMessage(s) ==
    CASE s = 401 -> "Request failed with status code 401"
      [] s = 404 -> "Request failed with status code 404"
      [] s = 429 -> "Request failed with status code 429"
      [] OTHER   -> "Request failed with status code 500"

\* The error axios.get rejects with: error.response is set only when the
\* upstream answered.
AxiosError(o) ==
    [ response |-> IF o.status = None THEN None ELSE Some([status |-> o.status[1]]),
      message  |-> IF o.status = None THEN "Network Error"
                   ELSE StatusMessage(o.status[1]) ]

\* The error thrown when the mapping dereferences an undefined value.
TypeError ==
    [ response |-> None, message |-> "Cannot read properties of undefined" ]

\* error.response?.status === s
ResponseStatusIs(error, s) ==
    error.response # None /\ error.response[1].status = s

-----------------------------------------------------------------------------
(* Response shaping                                                        *)

\* Math.round on a number written in tenths (halves round towards +infinity).
MathRound(t) == (t + 5) \div 10

\* `v || 0` on an optional number: undefined and every falsy number give 0.
OrZero(v) == IF v = None \/ v[1] = 0 THEN 0 ELSE v[1]

\* weatherData.wind?.speed
WindSpeedOf(weatherData) ==
    IF weatherData.wind = None THEN None ELSE weatherData.wind[1].speed

\* weatherData.rain?.['3h']
Rain3hOf(weatherData) ==
    IF weatherData.rain = None THEN None ELSE weatherData.rain[1].h3

\* A mapping that reads weatherData.wind.speed and weatherData.rain['3h']
\* without optional chaining: it throws as well when wind or rain is absent.
ProcessedDataThrowsOnCalm(weatherData) ==
    \/ weatherData.main = None
    \/ Len(weatherData.weather) = 0
    \/ weatherData.coord = None
    \/ weatherData.sys = None
    \/ weatherData.wind = None
    \/ weatherData.rain = None

\* The /api/weather mapping throws a TypeError when it reads a property of
\* an undefined main, weather[0], coord or sys.
ProcessedDataThrows(weatherData) ==
    \/ weatherData.main = None
    \/ Len(weatherData.weather) = 0
    \/ weatherData.coord = None
    \/ weatherData.sys = None

\* processedData of /api/weather.
ProcessedData(weatherData) ==
    [ temperature |-> MathRound(weatherData.main[1].temp),
      description |-> weatherData.weather[1].description,
      coordinates |-> [lat |-> weatherData.coord[1].lat,
                       lon |-> weatherData.coord[1].lon],
      feelsLike   |-> MathRound(weatherData.main[1].feels_like),
      windSpeed   |-> OrZero(WindSpeedOf(weatherData)),
      countryCode |-> weatherData.sys[1].country,
      rainVolume  |-> OrZero(Rain3hOf(weatherData)),
      city        |-> weatherData.name,
      humidity    |-> weatherData.main[1].humidity,
      pressure    |-> weatherData.main[1].pressure,
      icon        |-> weatherData.weather[1].icon ]

\* The same dereferences in the /api/data mapping.
ProcessedWeatherThrows(weatherData) ==
    \/ weatherData.main = None
    \/ Len(weatherData.weather) = 0
    \/ weatherData.coord = None
    \/ weatherData.sys = None

\* processedWeather of /api/data.
ProcessedWeather(weatherData) ==
    [ temperature |-> MathRound(weatherData.main[1].temp),
      description |-> weatherData.weather[1].description,
      coordinates |-> [lat |-> weatherData.coord[1].lat,
                       lon |-> weatherData.coord[1].lon],
      feelsLike   |-> MathRound(weatherData.main[1].feels_like),
      windSpeed   |-> OrZero(WindSpeedOf(weatherData)),
      countryCode |-> weatherData.sys[1].country,
      rainVolume  |-> OrZero(Rain3hOf(weatherData)),
      city        |-> weatherData.name,
      humidity    |-> weatherData.main[1].humidity,
      pressure    |-> weatherData.main[1].pressure,
      icon        |-> weatherData.weather[1].icon ]

\* The article callback of articles.map: title, description and image are
\* copied as they are (possibly undefined); article.source.name needs a
\* source object.
MapArticle(article) ==
    [ title       |-> article.title,
      description |-> article.description,
      url         |-> article.url,
      publishedAt |-> article.publishedAt,
      source      |-> article.source[1].name,
      imageUrl    |-> article.urlToImage ]

\* newsData.articles.map(...) throws when articles is undefined or when an
\* article has no source object.
ArticlesMapThrows(data) ==
    \/ data.articles = None
    \/ \E i \in 1..Len(data.articles[1]) : data.articles[1][i].source = None

\* A mapping that filters out the articles without a title first.
ArticlesMapSkipUntitled(articles) ==
    LET titled == SelectSeq(articles, LAMBDA a : a.title # None)
    IN  [i \in 1..Len(titled) |-> MapArticle(titled[i])]

\* Array.prototype.map: one result per element, in order.
ArticlesMap(articles) ==
    [i \in 1..Len(articles) |-> MapArticle(articles[i])]

\* processedNews of /api/news.
ProcessedNews(newsData) ==
    [ totalResults |-> newsData.totalResults,
      articles     |-> ArticlesMap(newsData.articles[1]) ]

\* newsData of /api/data when the news call and its mapping succeed.
CombinedNews(data) ==
    [ totalResults |-> data.totalResults,
      articles     |-> ArticlesMap(data.articles[1]) ]

\* A degraded result that lacks the error marker.
NewsUnavailableUnmarked ==
    [ totalResults |-> 0, articles |-> << >> ]

\* newsData of /api/data assigned in the inner catch.
NewsUnavailable ==
    [ totalResults |-> 0, articles |-> << >>, error |-> "News data unavailable" ]

Respond(status, body) == [status |-> status, body |-> body]

\* `city === undefined`: only an absent parameter counts as missing.
FalsyUndefinedOnly(param) == param = None

\* `!city`: undefined and the empty string are falsy.
Falsy(param) == param = None \/ param[1] = ""

\* A catch block of /api/weather without the 401 branch.
WeatherCatchNo401(error) ==
    IF ResponseStatusIs(error, 404)
    THEN Respond(404, [error |-> "City not found",
                       message |-> "Please check the city name and try again"])
    ELSE Respond(500, [error |-> "Failed to fetch weather data",
                       message |-> error.message])

\* catch block of /api/weather.
WeatherCatch(error) ==
    IF ResponseStatusIs(error, 404)
    THEN Respond(404, [error |-> "City not found",
                       message |-> "Please check the city name and try again"])
    ELSE IF ResponseStatusIs(error, 401)
    THEN Respond(401, [error |-> "Invalid API key",
                       message |-> "Please check your OpenWeather API key"])
    ELSE Respond(500, [error |-> "Failed to fetch weather data",
                       message |-> error.message])

\* A catch block of /api/news without the 429 branch.
NewsCatchNo429(error) ==
    IF ResponseStatusIs(error, 401)
    THEN Respond(401, [error |-> "Invalid API key",
                       message |-> "Please check your News API key"])
    ELSE Respond(500, [error |-> "Failed to fetch news data",
                       message |-> error.message])

\* catch block of /api/news.
NewsCatch(error) ==
    IF ResponseStatusIs(error, 401)
    THEN Respond(401, [error |-> "Invalid API key",
                       message |-> "Please check your News API key"])
    ELSE IF ResponseStatusIs(error, 429)
    THEN Respond(429, [error |-> "API rate limit exceeded",
                       message |-> "Please try again later"])
    ELSE Respond(500, [error |-> "Failed to fetch news data",
                       message |-> error.message])

\* An outer catch block of /api/data without the 404 branch.
DataCatchNo404(error) ==
    Respond(500, [error |-> "Failed to fetch data", message |-> error.message])

\* Outer catch block of /api/data.
DataCatch(error) ==
    IF ResponseStatusIs(error, 404)
    THEN Respond(404, [error |-> "City not found",
                       message |-> "Please check the city name and try again"])
    ELSE Respond(500, [error |-> "Failed to fetch data",
                       message |-> error.message])

\* An inner catch that logs and leaves newsData null.
DataNewsResultNull(o) ==
    IF AxiosResolves(o) /\ ~ArticlesMapThrows(o.data[1])
    THEN Some(CombinedNews(o.data[1]))
    ELSE None

\* Inner try/catch of /api/data around the news call: every failure of the
\* call or of the mapping is replaced by the degraded result.
DataNewsResult(o) ==
    IF AxiosResolves(o) /\ ~ArticlesMapThrows(o.data[1])
    THEN Some(CombinedNews(o.data[1]))
    ELSE Some(NewsUnavailable)

-----------------------------------------------------------------------------
(* Browser client: rendering of the articles of a combined response        *)

\* `text || placeholder` on an optional string.
OrText(text, placeholder) == IF Falsy(text) THEN placeholder ELSE text[1]

\* createNewsCard: the strings interpolated into the card's HTML.
CreateNewsCard(article) ==
    [ image       |-> OrText(article.imageUrl, ""),
      source      |-> IF article.source = "" THEN "Unknown Source" ELSE article.source,
      title       |-> OrText(article.title, "No title available"),
      description |-> OrText(article.description, "No description available"),
      url         |-> article.url ]

\* displayNewsData: one card per article, appended in order.
DisplayNewsData(articles) ==
    [i \in 1..Len(articles) |-> CreateNewsCard(articles[i])]

-----------------------------------------------------------------------------
(* State                                                                   *)

VARIABLES
    pc,                \* where the handler of each request stands
    route,             \* the route each request was sent to
    query,             \* req.query of each request
    calls,             \* the outbound axios.get calls each handler has issued
    processedWeather,  \* /api/data: the handler's processedWeather constant
    newsData,          \* /api/data: the handler's `let newsData`
    res                \* the responses sent on each request's res object

vars == <<pc, route, query, calls, processedWeather, newsData, res>>

Init ==
    /\ pc = [r \in Reqs |-> "idle"]
    /\ route = [r \in Reqs |-> "none"]
    /\ query = [r \in Reqs |-> [city |-> None, country |-> None]]
    /\ calls = [r \in Reqs |-> << >>]
    /\ processedWeather = [r \in Reqs |-> None]
    /\ newsData = [r \in Reqs |-> None]
    /\ res = [r \in Reqs |-> << >>]

\* A branch that responds without `return`: after a response other than
\* the final one of its block, control falls through to the last
\* res.status(500).json(...) of the handler.
SendWithoutReturn(sent, response) ==
    IF response.status \in {200, 500}
    THEN Append(sent, response)
    ELSE sent \o << response,
                    Respond(500, [error |-> "Failed to fetch data",
                                  message |-> "fell through"]) >>

\* res.status(...).json(...) / res.json(...): one response goes out on the
\* request's res object; every call of it but the last of its block is
\* returned from.
Send(sent, response) == Append(sent, response)

\* A processedWeather declared at module level: one variable for all
\* handlers, read by whichever handler responds.
ModuleLevelWeather(r) ==
    processedWeather[CHOOSE q \in Reqs : processedWeather[q] # None][1]

\* processedWeather as the handler of r reads it: a const of its own call.
HandlerWeather(r) == processedWeather[r][1]

\* An axios.get wrapped in a retry: the call is issued a second time.
AxiosGetWithRetry(issued, api, q) ==
    issued \o << [api |-> api, q |-> q, outcome |-> None],
                 [api |-> api, q |-> q, outcome |-> None] >>

\* axios.get(url): one outbound call to a provider, not yet settled.
AxiosGet(issued, api, q) ==
    Append(issued, [api |-> api, q |-> q, outcome |-> None])

\* The pending call of a suspended handler settles with outcome o.
Settle(issued, o) ==
    LET i == CHOOSE k \in 1..Len(issued) : issued[k].outcome = None
    IN  [issued EXCEPT ![i].outcome = Some(o)]

\* What /api/weather sends once its weather call has settled.
WeatherResult(o) ==
    IF ~AxiosResolves(o) THEN WeatherCatch(AxiosError(o))
    ELSE IF ProcessedDataThrows(o.data[1]) THEN WeatherCatch(TypeError)
    ELSE Respond(200, ProcessedData(o.data[1]))

\* What /api/news sends once its news call has settled.
NewsResult(o) ==
    IF ~AxiosResolves(o) THEN NewsCatch(AxiosError(o))
    ELSE IF ArticlesMapThrows(o.data[1]) THEN NewsCatch(TypeError)
    ELSE Respond(200, ProcessedNews(o.data[1]))

\* `city || country`
NewsQuery(q) == IF Falsy(q.city) THEN q.country[1] ELSE q.city[1]

-----------------------------------------------------------------------------
(* GET /api/weather                                                        *)

\* The handler up to `await axios.get(weatherUrl)`.
WeatherRequest(r) ==
    /\ pc[r] = "idle"
    /\ \E city \in Cities :
         /\ route' = [route EXCEPT ![r] = "/api/weather"]
         /\ query' = [query EXCEPT ![r] = [city |-> city, country |-> None]]
         /\ IF Falsy(city)
            THEN /\ res' = [res EXCEPT ![r] = Send(@,
                       Respond(400, [error |-> "City parameter is required",
                                     example |-> "/api/weather?city=London"]))]
                 /\ pc' = [pc EXCEPT ![r] = "done"]
                 /\ UNCHANGED calls
            ELSE /\ calls' = [calls EXCEPT ![r] = AxiosGet(@, "weather", city[1])]
                 /\ pc' = [pc EXCEPT ![r] = "awaitWeather"]
                 /\ UNCHANGED res
    /\ UNCHANGED <<processedWeather, newsData>>

\* The handler from the settled weather call to its response.
WeatherSettled(r) ==
    /\ pc[r] = "awaitWeather"
    /\ route[r] = "/api/weather"
    /\ \E o \in Outcomes(WeatherPayloads) :
         /\ calls' = [calls EXCEPT ![r] = Settle(@, o)]
         /\ res' = [res EXCEPT ![r] = Send(@, WeatherResult(o))]
    /\ pc' = [pc EXCEPT ![r] = "done"]
    /\ UNCHANGED <<route, query, processedWeather, newsData>>

-----------------------------------------------------------------------------
(* GET /api/news                                                           *)

\* The handler up to `await axios.get(newsUrl)`.
NewsRequest(r) ==
    /\ pc[r] = "idle"
    /\ \E q \in NewsQueries :
         /\ route' = [route EXCEPT ![r] = "/api/news"]
         /\ query' = [query EXCEPT ![r] = q]
         /\ IF Falsy(q.city) /\ Falsy(q.country)
            THEN /\ res' = [res EXCEPT ![r] = Send(@,
                       Respond(400, [error |-> "City or country parameter is required",
                                     example |-> "/api/news?city=London or /api/news?country=GB"]))]
                 /\ pc' = [pc EXCEPT ![r] = "done"]
                 /\ UNCHANGED calls
            ELSE /\ calls' = [calls EXCEPT ![r] = AxiosGet(@, "news", NewsQuery(q))]
                 /\ pc' = [pc EXCEPT ![r] = "awaitNews"]
                 /\ UNCHANGED res
    /\ UNCHANGED <<processedWeather, newsData>>

\* The handler from the settled news call to its response.
NewsSettled(r) ==
    /\ pc[r] = "awaitNews"
    /\ route[r] = "/api/news"
    /\ \E o \in Outcomes(NewsPayloads) :
         /\ calls' = [calls EXCEPT ![r] = Settle(@, o)]
         /\ res' = [res EXCEPT ![r] = Send(@, NewsResult(o))]
    /\ pc' = [pc EXCEPT ![r] = "done"]
    /\ UNCHANGED <<route, query, processedWeather, newsData>>

-----------------------------------------------------------------------------
(* GET /api/data                                                           *)

\* The handler up to `await axios.get(weatherUrl)`.
DataRequest(r) ==
    /\ pc[r] = "idle"
    /\ \E city \in Cities :
         /\ route' = [route EXCEPT ![r] = "/api/data"]
         /\ query' = [query EXCEPT ![r] = [city |-> city, country |-> None]]
         /\ IF Falsy(city)
            THEN /\ res' = [res EXCEPT ![r] = Send(@,
                       Respond(400, [error |-> "City parameter is required",
                                     example |-> "/api/data?city=London"]))]
                 /\ pc' = [pc EXCEPT ![r] = "done"]
                 /\ UNCHANGED calls
            ELSE /\ calls' = [calls EXCEPT ![r] = AxiosGet(@, "weather", city[1])]
                 /\ pc' = [pc EXCEPT ![r] = "awaitWeather"]
                 /\ UNCHANGED res
    /\ UNCHANGED <<processedWeather, newsData>>

\* From the settled weather call to `await axios.get(newsUrl)`, or through
\* the outer catch to an error response.
DataWeatherSettled(r) ==
    /\ pc[r] = "awaitWeather"
    /\ route[r] = "/api/data"
    /\ \E o \in Outcomes(WeatherPayloads) :
         IF AxiosResolves(o) /\ ~ProcessedWeatherThrows(o.data[1])
         THEN /\ processedWeather' =
                    [processedWeather EXCEPT ![r] = Some(ProcessedWeather(o.data[1]))]
              /\ newsData' = [newsData EXCEPT ![r] = None]
              /\ calls' = [calls EXCEPT ![r] =
                    AxiosGet(Settle(@, o), "news", query[r].city[1])]
              /\ pc' = [pc EXCEPT ![r] = "awaitNews"]
              /\ UNCHANGED res
         ELSE /\ calls' = [calls EXCEPT ![r] = Settle(@, o)]
              /\ res' = [res EXCEPT ![r] = Send(@,
                    DataCatch(IF AxiosResolves(o) THEN TypeError ELSE AxiosError(o)))]
              /\ pc' = [pc EXCEPT ![r] = "done"]
              /\ UNCHANGED <<processedWeather, newsData>>
    /\ UNCHANGED <<route, query>>

\* From the settled news call, through the inner try/catch, to res.json.
DataNewsSettled(r) ==
    /\ pc[r] = "awaitNews"
    /\ route[r] = "/api/data"
    /\ \E o \in Outcomes(NewsPayloads) :
         /\ calls' = [calls EXCEPT ![r] = Settle(@, o)]
         /\ newsData' = [newsData EXCEPT ![r] = DataNewsResult(o)]
         /\ res' = [res EXCEPT ![r] = Send(@,
               Respond(200, [weather |-> HandlerWeather(r),
                             news    |-> DataNewsResult(o)]))]
    /\ pc' = [pc EXCEPT ![r] = "done"]
    /\ UNCHANGED <<route, query, processedWeather>>

-----------------------------------------------------------------------------

Next ==
    \E r \in Reqs :
        \/ WeatherRequest(r)
        \/ WeatherSettled(r)
        \/ NewsRequest(r)
        \/ NewsSettled(r)
        \/ DataRequest(r)
        \/ DataWeatherSettled(r)
        \/ DataNewsSettled(r)

Spec == Init /\ [][Next]_vars

-----------------------------------------------------------------------------
(* Vocabulary of the properties                                            *)

Done(r) == pc[r] = "done"

\* The response of a finished request.
Resp(r) == res[r][1]

\* The i-th outbound call of request r has settled.
HasSettled(r, i) == Len(calls[r]) >= i /\ calls[r][i].outcome # None

OutcomeOf(r, i) == calls[r][i].outcome[1]

CallsTo(r, api) == {i \in 1..Len(calls[r]) : calls[r][i].api = api}

Ok(d) == [status |-> Some(200), data |-> Some(d)]

\* The provider answered with a body of the expected shape.
WeatherCallGood(o) == o \in {Ok(d) : d \in GoodWeatherPayloads}
NewsCallGood(o) == o \in {Ok(d) : d \in GoodNewsPayloads}

\* The provider answered with non-2xx status s.
UpstreamStatus(o, s) == o.status = Some(s)

\* The degraded form of the news field: empty, zero, marked.
IsDegraded(news) ==
    /\ news.articles = << >>
    /\ news.totalResults = 0
    /\ "error" \in DOMAIN news

-----------------------------------------------------------------------------
(* C1 - C4: the combined endpoint                                          *)

\* C1: whenever a /api/data request had its weather call succeed and its
\* news step fail (non-2xx status, network failure or a body that cannot be
\* mapped), the response is 200, its news field is the empty result with
\* totalResults 0 and an error marker, and its weather field is the report
\* built from the weather response.
C1_NewsFailureDegrades ==
    \A r \in Reqs :
        ( /\ route[r] = "/api/data"
          /\ HasSettled(r, 1) /\ AxiosResolves(OutcomeOf(r, 1))
          /\ HasSettled(r, 2) /\ ~NewsCallGood(OutcomeOf(r, 2)) )
        => /\ Done(r)
           /\ Len(res[r]) = 1
           /\ Resp(r).status = 200
           /\ Resp(r).body.news # None
           /\ IsDegraded(Resp(r).body.news[1])
           /\ Resp(r).body.weather = ProcessedWeather(OutcomeOf(r, 1).data[1])

C1_Witness ==
    \E r \in Reqs :
        /\ route[r] = "/api/data" /\ Done(r)
        /\ HasSettled(r, 2) /\ UpstreamStatus(OutcomeOf(r, 2), 429)
        /\ Resp(r).status = 200
        /\ Resp(r).body.news = Some(NewsUnavailable)

\* The error kind a response status stands for.
ErrorKind(status) ==
    CASE status = 404 -> "NotFound"
      [] status = 401 -> "InvalidCredentials"
      [] status = 429 -> "RateLimited"
      [] status = 400 -> "MissingParameter"
      [] status = 500 -> "UpstreamFailure"
      [] OTHER        -> "none"

\* C2: when the weather call of a /api/data request and the weather call of
\* a /api/weather request fail in the same way (same non-2xx status, or both
\* without a response), the two requests are answered with the same status
\* and the same error kind.
C2_DataFailsLikeWeather ==
    \A r1, r2 \in Reqs :
        ( /\ route[r1] = "/api/weather" /\ Done(r1) /\ HasSettled(r1, 1)
          /\ route[r2] = "/api/data" /\ Done(r2) /\ HasSettled(r2, 1)
          /\ ~AxiosResolves(OutcomeOf(r1, 1))
          /\ OutcomeOf(r1, 1) = OutcomeOf(r2, 1) )
        => /\ Resp(r2).status = Resp(r1).status
           /\ ErrorKind(Resp(r2).status) = ErrorKind(Resp(r1).status)

\* C3: a 200 response of /api/data carries the report built from that
\* request's own successful weather call and a news field that is present:
\* either the mapped upstream result or the degraded form.  No 200 is sent
\* when the weather call failed or could not be mapped.
C3_CombinedResultComplete ==
    \A r \in Reqs :
        (route[r] = "/api/data" /\ Len(res[r]) > 0)
        => /\ Resp(r).status = 200 =>
                /\ HasSettled(r, 1) /\ calls[r][1].api = "weather"
                /\ WeatherCallGood(OutcomeOf(r, 1))
                /\ Resp(r).body.weather = ProcessedWeather(OutcomeOf(r, 1).data[1])
                /\ "news" \in DOMAIN Resp(r).body
                /\ Resp(r).body.news # None
                /\ HasSettled(r, 2)
                /\ \/ IsDegraded(Resp(r).body.news[1])
                   \/ /\ NewsCallGood(OutcomeOf(r, 2))
                      /\ Resp(r).body.news[1] = CombinedNews(OutcomeOf(r, 2).data[1])
           /\ (HasSettled(r, 1) /\ ~WeatherCallGood(OutcomeOf(r, 1)))
                => Resp(r).status # 200

C3_Witness ==
    \E r \in Reqs :
        /\ route[r] = "/api/data" /\ Done(r)
        /\ Resp(r).status = 200
        /\ Resp(r).body.news # None
        /\ Len(Resp(r).body.news[1].articles) = 2
        /\ Resp(r).body.weather.city = "London"

\* C4: a /api/data request whose weather call fails is answered with 404
\* when the provider said 404 and with 500 otherwise, its body has no news
\* field, and it issues no news call; a news call is only ever issued by a
\* handler whose weather call has succeeded and been mapped.
C4_WeatherFailureStopsData ==
    \A r \in Reqs :
        route[r] = "/api/data" =>
            /\ (HasSettled(r, 1) /\ ~WeatherCallGood(OutcomeOf(r, 1)))
                 => /\ Done(r)
                    /\ Resp(r).status =
                         (IF UpstreamStatus(OutcomeOf(r, 1), 404) THEN 404 ELSE 500)
                    /\ "news" \notin DOMAIN Resp(r).body
                    /\ CallsTo(r, "news") = {}
            /\ \A i \in CallsTo(r, "news") :
                 /\ i > 1
                 /\ calls[r][1].api = "weather"
                 /\ HasSettled(r, 1) /\ WeatherCallGood(OutcomeOf(r, 1))
                 /\ processedWeather[r] = Some(ProcessedWeather(OutcomeOf(r, 1).data[1]))

C4_Witness ==
    \E r \in Reqs :
        /\ route[r] = "/api/data" /\ Done(r)
        /\ HasSettled(r, 1) /\ UpstreamStatus(OutcomeOf(r, 1), 401)
        /\ Resp(r).status = 500
        /\ Len(calls[r]) = 1

-----------------------------------------------------------------------------
(* C5 - C7: status codes of the single-provider endpoints                  *)

\* The message of the failure behind a settled call: the axios error of a
\* rejected call, the TypeError of a 2xx body that cannot be mapped.
UnderlyingMessage(o) ==
    IF o.status = Some(200) THEN TypeError.message
    ELSE IF o.status = None THEN "Network Error"
    ELSE StatusMessage(o.status[1])

\* C5: a /api/weather request with a city is answered 200 for a well-formed
\* 2xx body, 404 for upstream 404, 401 for upstream 401, and 500 with the
\* underlying message for every other upstream status, for a network
\* failure and for a 2xx body of unexpected shape.
C5_WeatherStatusMapping ==
    \A r \in Reqs :
        (route[r] = "/api/weather" /\ ~Falsy(query[r].city))
        => /\ Done(r) <=> HasSettled(r, 1)
           /\ Done(r) =>
                LET o == OutcomeOf(r, 1)
                    st == Resp(r).status
                IN  /\ Len(res[r]) = 1
                    /\ st \in {200, 404, 401, 500}
                    /\ st = 200 <=> WeatherCallGood(o)
                    /\ st = 404 <=> UpstreamStatus(o, 404)
                    /\ st = 401 <=> UpstreamStatus(o, 401)
                    /\ st = 500 => Resp(r).body.message = UnderlyingMessage(o)

C5_Witness ==
    \E r \in Reqs :
        /\ route[r] = "/api/weather" /\ Done(r) /\ HasSettled(r, 1)
        /\ OutcomeOf(r, 1) \in {Ok(d) : d \in BadWeatherPayloads}
        /\ Resp(r).status = 500
        /\ Resp(r).body.message = "Cannot read properties of undefined"

\* C6: a /api/news request with a search term is answered 401 with the
\* invalid-credentials error for upstream 401, 429 with the rate-limit error
\* for upstream 429, 500 for every other failure, and 200 only for a 2xx
\* body that can be mapped; a news failure is never answered 200.
C6_NewsErrorsSurface ==
    \A r \in Reqs :
        (route[r] = "/api/news" /\ ~(Falsy(query[r].city) /\ Falsy(query[r].country)))
        => /\ Done(r) <=> HasSettled(r, 1)
           /\ Done(r) =>
                LET o == OutcomeOf(r, 1)
                    st == Resp(r).status
                IN  /\ Len(res[r]) = 1
                    /\ st = 200 <=> NewsCallGood(o)
                    /\ UpstreamStatus(o, 401)
                         => st = 401 /\ Resp(r).body.error = "Invalid API key"
                    /\ UpstreamStatus(o, 429)
                         => st = 429 /\ Resp(r).body.error = "API rate limit exceeded"
                    /\ (~NewsCallGood(o) /\ ~UpstreamStatus(o, 401)
                          /\ ~UpstreamStatus(o, 429))
                         => st = 500 /\ Resp(r).body.error = "Failed to fetch news data"

C6_Witness ==
    \E r \in Reqs :
        /\ route[r] = "/api/news" /\ Done(r) /\ HasSettled(r, 1)
        /\ UpstreamStatus(OutcomeOf(r, 1), 429)
        /\ Resp(r).status = 429

\* The request lacks its required parameter.
MissingParameter(r) ==
    IF route[r] = "/api/news"
    THEN query[r].city \in {None, Some("")} /\ query[r].country \in {None, Some("")}
    ELSE query[r].city \in {None, Some("")}

\* C7: a request without its required parameter (no city or an empty city
\* for /api/weather and /api/data; neither city nor country for /api/news)
\* is answered 400 with an example hint and issues no outbound call.
C7_MissingParameter ==
    \A r \in Reqs :
        (route[r] # "none" /\ MissingParameter(r))
        => /\ Done(r)
           /\ Len(res[r]) = 1
           /\ Resp(r).status = 400
           /\ "example" \in DOMAIN Resp(r).body
           /\ calls[r] = << >>

C7_Witness ==
    \E r1, r2 \in Reqs :
        /\ route[r1] = "/api/data" /\ query[r1].city = Some("")
        /\ Resp(r1).status = 400
        /\ route[r2] = "/api/news" /\ query[r2].city = None /\ query[r2].country = None
        /\ Resp(r2).status = 400

-----------------------------------------------------------------------------
(* C8 - C9: response shaping                                               *)

\* What the claim expects of an optional upstream number.
UpstreamOrZero(container, field) ==
    IF container = None \/ container[1][field] = None
    THEN 0 ELSE container[1][field][1]

\* The report a request has built from its weather response, if any.
ReportOf(r) ==
    IF route[r] = "/api/weather"
    THEN IF Done(r) /\ Resp(r).status = 200 THEN Some(Resp(r).body) ELSE None
    ELSE processedWeather[r]

\* C8: for every 2xx weather body that has main, weather[0], coord and sys,
\* on /api/weather and on /api/data, the report is built (the request does
\* not fail), windSpeed is 0 without wind or wind.speed and the upstream
\* wind.speed otherwise, rainVolume is 0 without rain or rain['3h'] and the
\* upstream value otherwise.
C8_WindRainDefaults ==
    \A r \in Reqs :
        ( /\ route[r] \in {"/api/weather", "/api/data"}
          /\ HasSettled(r, 1) /\ WeatherCallGood(OutcomeOf(r, 1)) )
        => LET d == OutcomeOf(r, 1).data[1]
           IN  /\ ReportOf(r) # None
               /\ ReportOf(r)[1].windSpeed = UpstreamOrZero(d.wind, "speed")
               /\ ReportOf(r)[1].rainVolume = UpstreamOrZero(d.rain, "h3")
               /\ Done(r) =>
                    /\ Resp(r).status = 200
                    /\ route[r] = "/api/data" => Resp(r).body.weather = ReportOf(r)[1]

C8_Witness ==
    \E r1, r2 \in Reqs :
        /\ route[r1] = "/api/data" /\ Done(r1) /\ HasSettled(r1, 1)
        /\ WeatherCallGood(OutcomeOf(r1, 1))
        /\ OutcomeOf(r1, 1).data[1].wind = None
        /\ Resp(r1).body.weather.windSpeed = 0
        /\ Resp(r1).body.weather.rainVolume = 20
        /\ route[r2] = "/api/weather" /\ Done(r2) /\ HasSettled(r2, 1)
        /\ WeatherCallGood(OutcomeOf(r2, 1))
        /\ OutcomeOf(r2, 1).data[1].wind = Some([speed |-> Some(0)])
        /\ OutcomeOf(r2, 1).data[1].rain = Some([h3 |-> None])
        /\ Resp(r2).body.windSpeed = 0
        /\ Resp(r2).body.rainVolume = 0

\* The news result a finished request returned for its news call.
ReturnedNews(r) ==
    IF route[r] = "/api/news" THEN Resp(r).body ELSE Resp(r).body.news[1]

\* The news call of a request: the first call of /api/news, the second of
\* /api/data.
NewsCallIndex(r) == IF route[r] = "/api/news" THEN 1 ELSE 2

\* C9: for every 2xx news body whose articles all carry a source, the
\* request succeeds and returns one article per upstream article in the
\* same order; an article without title, description or image is returned
\* with that field empty, and its card shows the placeholder for it.
C9_ArticlesMapped ==
    \A r \in Reqs :
        ( /\ route[r] \in {"/api/news", "/api/data"}
          /\ HasSettled(r, NewsCallIndex(r))
          /\ calls[r][NewsCallIndex(r)].api = "news"
          /\ NewsCallGood(OutcomeOf(r, NewsCallIndex(r))) )
        => LET up == OutcomeOf(r, NewsCallIndex(r)).data[1].articles[1]
           IN  /\ Done(r)
               /\ Resp(r).status = 200
               /\ "error" \notin DOMAIN ReturnedNews(r)
               /\ Len(ReturnedNews(r).articles) = Len(up)
               /\ \A i \in 1..Len(up) :
                    LET a == ReturnedNews(r).articles[i]
                        card == DisplayNewsData(ReturnedNews(r).articles)[i]
                    IN  /\ a.url = up[i].url
                        /\ a.source = up[i].source[1].name
                        /\ a.title = up[i].title
                        /\ a.description = up[i].description
                        /\ a.imageUrl = up[i].urlToImage
                        /\ card.title = (IF up[i].title = None
                                         THEN "No title available" ELSE up[i].title[1])
                        /\ card.description = (IF up[i].description = None
                                               THEN "No description available"
                                               ELSE up[i].description[1])
                        /\ card.image = (IF up[i].urlToImage = None
                                         THEN "" ELSE up[i].urlToImage[1])

C9_Witness ==
    \E r \in Reqs :
        /\ route[r] = "/api/news" /\ Done(r) /\ Resp(r).status = 200
        /\ Len(Resp(r).body.articles) = 2
        /\ Resp(r).body.articles[1].title = None
        /\ Resp(r).body.articles[1].url = "https://example.com/b"
        /\ Resp(r).body.articles[2].title = Some("Title A")
        /\ DisplayNewsData(Resp(r).body.articles)[1].title = "No title available"

-----------------------------------------------------------------------------
(* C10: no retries                                                         *)

\* C10: a request issues at most one weather call and at most one news call
\* (/api/weather no news call, /api/news no weather call), and a call that
\* failed is never followed by another call of the same request.
C10_NoRetry ==
    \A r \in Reqs :
        /\ Cardinality(CallsTo(r, "weather")) <= 1
        /\ Cardinality(CallsTo(r, "news")) <= 1
        /\ route[r] = "/api/weather" => CallsTo(r, "news") = {}
        /\ route[r] = "/api/news" => CallsTo(r, "weather") = {}
        /\ \A i \in 1..Len(calls[r]) :
             (HasSettled(r, i) /\ ~AxiosResolves(OutcomeOf(r, i)))
                => i = Len(calls[r])

C10_Witness ==
    \E r \in Reqs :
        /\ route[r] = "/api/data" /\ Done(r)
        /\ Len(calls[r]) = 2
        /\ HasSettled(r, 2) /\ OutcomeOf(r, 2).status = None
        /\ Cardinality(CallsTo(r, "weather")) = 1
        /\ Cardinality(CallsTo(r, "news")) = 1

-----------------------------------------------------------------------------
(* C11: requests share no state                                            *)

\* The outcomes of the outbound calls request r has issued, in order.
OwnOutcomes(r) == [i \in 1..Len(calls[r]) |-> calls[r][i].outcome]

\* What a handler sends when it runs with no other request in progress,
\* from the route, the query and the outcomes of its own calls alone.
AloneResponse(rt, q, outs) ==
    CASE rt = "/api/weather" ->
           IF q.city \in {None, Some("")}
           THEN Respond(400, [error |-> "City parameter is required",
                              example |-> "/api/weather?city=London"])
           ELSE WeatherResult(outs[1][1])
      [] rt = "/api/news" ->
           IF q.city \in {None, Some("")} /\ q.country \in {None, Some("")}
           THEN Respond(400, [error |-> "City or country parameter is required",
                              example |-> "/api/news?city=London or /api/news?country=GB"])
           ELSE NewsResult(outs[1][1])
      [] OTHER ->
           IF q.city \in {None, Some("")}
           THEN Respond(400, [error |-> "City parameter is required",
                              example |-> "/api/data?city=London"])
           ELSE IF ~AxiosResolves(outs[1][1])
           THEN DataCatch(AxiosError(outs[1][1]))
           ELSE IF ProcessedWeatherThrows(outs[1][1].data[1])
           THEN DataCatch(TypeError)
           ELSE Respond(200, [weather |-> ProcessedWeather(outs[1][1].data[1]),
                              news    |-> DataNewsResult(outs[2][1])])

\* C11: in every reachable state, whatever the other requests have done in
\* between, the response of a finished request is the one its handler sends
\* when run alone on the same query with the same outcomes of its own
\* calls; two finished requests with the same route, query and outcomes
\* have the same response; and the data a suspended /api/data handler holds
\* is the report of its own weather response.
C11_RequestsIndependent ==
    /\ \A r \in Reqs :
         /\ Done(r) => res[r] = << AloneResponse(route[r], query[r], OwnOutcomes(r)) >>
         /\ pc[r] = "awaitNews" /\ route[r] = "/api/data"
              => processedWeather[r] = Some(ProcessedWeather(OutcomeOf(r, 1).data[1]))
    /\ \A r1, r2 \in Reqs :
         ( /\ Done(r1) /\ Done(r2)
           /\ route[r1] = route[r2] /\ query[r1] = query[r2]
           /\ OwnOutcomes(r1) = OwnOutcomes(r2) )
         => res[r1] = res[r2]

\* Two /api/data handlers are suspended at their news calls together, each
\* holding the report of a different weather response.
C11_Witness ==
    \E r1, r2 \in Reqs :
        /\ r1 # r2
        /\ route[r1] = "/api/data" /\ pc[r1] = "awaitNews"
        /\ route[r2] = "/api/data" /\ pc[r2] = "awaitNews"
        /\ processedWeather[r1] # processedWeather[r2]
        /\ processedWeather[r1][1].windSpeed = 35
        /\ processedWeather[r2][1].rainVolume = 20

-----------------------------------------------------------------------------
(* C12: every request is answered exactly once                             *)

\* A suspended handler of request r resumes: its pending call settles.
Settles(r) ==
    \/ WeatherSettled(r)
    \/ NewsSettled(r)
    \/ DataWeatherSettled(r)
    \/ DataNewsSettled(r)

\* Every outbound call that was issued eventually settles, and the event
\* loop then runs the continuation of the handler awaiting it.
FairSpec == Init /\ [][Next]_vars /\ \A r \in Reqs : WF_vars(Settles(r))

\* At most one response per request; a finished handler has responded; a
\* response is sent only when every call of the request has settled and
\* the handler is finished; its status is one of the six statuses.
AnsweredOnceInv ==
    \A r \in Reqs :
        /\ Len(res[r]) <= 1
        /\ Done(r) => Len(res[r]) = 1
        /\ Len(res[r]) > 0 =>
             /\ Done(r)
             /\ \A i \in 1..Len(calls[r]) : calls[r][i].outcome # None
             /\ Resp(r).status \in {200, 400, 401, 404, 429, 500}

\* C12: provided every issued call settles, every request that was received
\* is eventually answered (again and again a moment comes at which all the
\* requests received so far have their response), and at every moment a
\* request has at most one response, sent only after all of its outbound
\* calls have settled, with status 200, 400, 401, 404, 429 or 500.
C12_AnsweredExactlyOnce ==
    /\ []AnsweredOnceInv
    /\ []<>(\A r \in Reqs : route[r] # "none" => (Done(r) /\ Len(res[r]) = 1))

C12_Witness ==
    \E r1, r2 \in Reqs :
        /\ route[r1] = "/api/data" /\ Done(r1) /\ Len(res[r1]) = 1
        /\ Len(calls[r1]) = 2
        /\ \A i \in 1..2 : calls[r1][i].outcome # None
        /\ Resp(r1).status = 200
        /\ route[r2] = "/api/news" /\ Done(r2) /\ Len(res[r2]) = 1
        /\ Resp(r2).status = 500

====
